---- MODULE Spec2Model ----
(***************************************************************************)
(* Model of src/src/data_helper/chunk_helper_coqa.py:                      *)
(*   convert_examples_to_features  (the chunker, one example at a time)    *)
(*   make_predictions              (the decoder, one example at a time)    *)
(* Positions, offsets and indexes keep the 0-based values of the Python    *)
(* code; TLA+ sequences are 1-based, so s[i + 1] reads Python's s[i].      *)
(***************************************************************************)
EXTENDS Integers, Sequences, FiniteSets, TLC

\* ------------------------------------------------------------------ bounds
\* conversation turns per example, and subword tokens per turn
MaxTurns == 2
MaxTurnLen == 2
\* max_query_length ranges over 0..MaxQueryLen
MaxQueryLen == 2
\* subword tokens per document, however the document tokens split into them
MaxDocLen == 5
\* max_seq_length ranges over NumSpecial..MaxSeqLen, doc_stride over 0..MaxStride
MaxSeqLen == 7
MaxStride == 3

\* logits range over 0..MaxLogit, n_best_size over 1..MaxNBest
MaxLogit == 1
MaxNBest == 2

\* "The -3 accounts for [CLS], [SEP] and [SEP]"
NumSpecial == 3
\* unique_id = 1000000000
FirstUniqueId == 1000000000

\* the cap on the window loop's iterations (only a loop that does not
\* terminate reaches it)
MaxSpans == MaxDocLen + 1

VARIABLES
    pc,                 \* position in the function being run
    example,            \* the CoQAExample: question_tokens, doc_sub, start_position, end_position
    args,               \* max_seq_length, doc_stride, max_query_length, is_training, append_history
    query_tokens,
    tok_to_orig_index,
    orig_to_tok_index,
    tok_start_position,
    tok_end_position,
    doc_spans,
    start_offset,
    doc_span_index,
    features,
    unique_id,
    dec_args,           \* n_best_size, max_answer_length, validate_flag
    feature_index,
    result,             \* unique_id_to_result[feature.unique_id] of the last feature
    prelim_predictions,
    pred_index,
    nbest,
    prediction          \* nbest[0].text as written to the output

chunk_vars == <<query_tokens, tok_to_orig_index, orig_to_tok_index,
                tok_start_position, tok_end_position, doc_spans, start_offset,
                doc_span_index, features, unique_id>>

dec_vars == <<dec_args, feature_index, result, prelim_predictions, pred_index,
              nbest, prediction>>

vars == <<pc, example, args, chunk_vars, dec_vars>>

\* ----------------------------------------------------------------- helpers
Min(a, b) == IF a < b THEN a ELSE b
Max(a, b) == IF a > b THEN a ELSE b

\* Python's s[:stop] and s[start:] with a possibly negative or oversized bound
PySliceTo(s, stop) ==
    LET e == IF stop < 0 THEN Max(Len(s) + stop, 0) ELSE Min(stop, Len(s))
    IN  SubSeq(s, 1, e)

PySliceFrom(s, start) ==
    LET b == IF start < 0 THEN Max(Len(s) + start, 0) ELSE Min(start, Len(s))
    IN  SubSeq(s, b + 1, Len(s))

\* all_query_tokens[::-1]
Reverse(s) == [i \in 1..Len(s) |-> s[Len(s) + 1 - i]]

\* for query_tokens in all_query_tokens: flat_all_query_tokens += query_tokens
RECURSIVE Flatten(_)
Flatten(ss) == IF ss = <<>> THEN <<>> ELSE Head(ss) \o Flatten(Tail(ss))

\* [v] * n for n >= 0, nothing for n < 0 (also the body of range(n) loops)
Repeat(v, n) == [i \in 1..n |-> v]

\* ----------------------------------------------------------- query tokens
\* A query subword token is <<"q", turn, k>>: the k-th token the tokenizer
\* gives for the turn-th question text (turn 1 is the oldest, the last turn
\* is the current one).
TurnTokens(turn, n) == [k \in 1..n |-> <<"q", turn, k>>]

\* all_query_tokens = [tokenizer.tokenize(t) for t in example.question_texts]
AllQueryTokens(turn_lens) == [t \in 1..Len(turn_lens) |-> TurnTokens(t, turn_lens[t])]

QueryTokens(turn_lens, append_history, max_query_length) ==
    LET all_query_tokens == IF append_history
                            THEN Reverse(AllQueryTokens(turn_lens))
                            ELSE AllQueryTokens(turn_lens)
        flat_all_query_tokens == Flatten(all_query_tokens)
    IN  IF append_history
        THEN PySliceTo(flat_all_query_tokens, max_query_length)
        ELSE PySliceFrom(flat_all_query_tokens, (-1) * max_query_length)

\* -------------------------------------------------------- document tokens
\* doc_sub[i + 1] is the number of subword tokens tokenizer.tokenize gives
\* for example.doc_tokens[i].
RECURSIVE SumTo(_, _)
SumTo(doc_sub, n) == IF n = 0 THEN 0 ELSE doc_sub[n] + SumTo(doc_sub, n - 1)

\* orig_to_tok_index.append(len(all_doc_tokens))
OrigToTok(doc_sub) == [i \in 1..Len(doc_sub) |-> SumTo(doc_sub, i - 1)]

\* tok_to_orig_index.append(i) once per sub_token
RECURSIVE TokToOrigFrom(_, _)
TokToOrigFrom(doc_sub, i) ==
    IF i > Len(doc_sub) THEN <<>>
    ELSE Repeat(i - 1, doc_sub[i]) \o TokToOrigFrom(doc_sub, i + 1)

TokToOrig(doc_sub) == TokToOrigFrom(doc_sub, 1)

\* len(all_doc_tokens)
DocLen == Len(tok_to_orig_index)

\* _improve_answer_span refines the boundaries to match the answer text:
\* it gives the input span or some span inside it.
ImproveAnswerSpan(input_start, input_end) ==
    IF input_start > input_end THEN {<<input_start, input_end>>}
    ELSE {p \in (input_start..input_end) \X (input_start..input_end) : p[1] <= p[2]}

\* ------------------------------------------------------------------ inputs
\* question_tokens[t] is the number of subword tokens of the t-th question text
TurnLens == UNION {[1..n -> 0..MaxTurnLen] : n \in 1..MaxTurns}
\* every document token gives at least one subword token
DocSubs ==
    {d \in UNION {[1..n -> 1..MaxDocLen] : n \in 0..MaxDocLen} :
        SumTo(d, Len(d)) <= MaxDocLen}

\* start_position=None, end_position=None
NoPosition == -1

\* CoQAExample: with is_training the loader gives a gold span of document
\* tokens, 0 <= start_position <= end_position < len(doc_tokens)
Examples(turns, docs) ==
    {x \in [question_tokens : turns, doc_sub : docs,
            start_position : NoPosition..(MaxDocLen - 1),
            end_position : NoPosition..(MaxDocLen - 1)] :
        \/ x.start_position = NoPosition /\ x.end_position = NoPosition
        \/ /\ 0 <= x.start_position
           /\ x.start_position <= x.end_position
           /\ x.end_position < Len(x.doc_sub)}

Args(seqs, strides, qlens, appends) ==
    [max_seq_length : seqs, doc_stride : strides, max_query_length : qlens,
     is_training : BOOLEAN, append_history : appends]

\* ------------------------------------------------------------ the chunker
\* the budget with only one [SEP] accounted for
MaxTokensForDoc_OneSep == args.max_seq_length - Len(query_tokens) - (NumSpecial - 1)

\* max_tokens_for_doc = max_seq_length - len(query_tokens) - 3
MaxTokensForDoc == args.max_seq_length - Len(query_tokens) - NumSpecial

\* length = len(all_doc_tokens) - start_offset, capped at max_tokens_for_doc
SpanLength(offset) ==
    IF DocLen - offset > MaxTokensForDoc THEN MaxTokensForDoc ELSE DocLen - offset

\* the advance without the min: start_offset += doc_stride
NextStartOffset_StrideOnly(offset, length) == offset + args.doc_stride

\* the advance with max for min: start_offset += max(length, doc_stride)
NextStartOffset_Max(offset, length) == offset + Max(length, args.doc_stride)

\* start_offset += min(length, doc_stride)
NextStartOffset(offset, length) == offset + Min(length, args.doc_stride)

\* _check_is_max_context(doc_spans, cur_span_index, position): among the
\* windows that contain position, the owner is the one with the largest
\* min(left context, right context), then the longest, then the first.
SpanEnd(span) == span.start + span.length - 1

SpanHolds(span, position) == span.start <= position /\ position <= SpanEnd(span)

ContextScore(span, position) == Min(position - span.start, SpanEnd(span) - position)

Better(a, b, position) ==
    \/ ContextScore(a, position) > ContextScore(b, position)
    \/ /\ ContextScore(a, position) = ContextScore(b, position)
       /\ a.length > b.length

CheckIsMaxContext(spans, cur_span_index, position) ==
    /\ SpanHolds(spans[cur_span_index + 1], position)
    /\ \A j \in 1..Len(spans) :
          SpanHolds(spans[j], position) =>
             /\ ~Better(spans[j], spans[cur_span_index + 1], position)
             /\ (j < cur_span_index + 1 =>
                    Better(spans[cur_span_index + 1], spans[j], position))

ClsToken == <<"[CLS]", 0, 0>>
SepToken == <<"[SEP]", 0, 0>>
DocToken(split_token_index) == <<"d", split_token_index, 0>>

\* tokenizer.convert_tokens_to_ids: one positive id per token
TokenId(tok) ==
    IF tok = ClsToken THEN 101
    ELSE IF tok = SepToken THEN 102
    ELSE IF tok[1] = "q" THEN 1000 + 10 * tok[2] + tok[3]
    ELSE 2000 + tok[2]

\* for i in range(doc_span.length): the chunk positions of the document region
DocRegion(span) == (Len(query_tokens) + 2)..(Len(query_tokens) + 1 + span.length)

\* the window-local index i taken for the document position
SplitTokenIndex_Local(span, p) == p - (Len(query_tokens) + 2)

\* split_token_index = doc_span.start + i, for the chunk position p
SplitTokenIndex(span, p) == span.start + (p - (Len(query_tokens) + 2))

ChunkTokens(span) ==
    <<ClsToken>> \o query_tokens \o <<SepToken>>
        \o [i \in 1..span.length |-> DocToken(span.start + i - 1)]
        \o <<SepToken>>

ChunkSegmentIds(span) ==
    Repeat(0, Len(query_tokens) + 2) \o Repeat(1, span.length) \o <<1>>

\* while len(input_ids) < max_seq_length: append 0
ZeroPad(s) == s \o Repeat(0, args.max_seq_length - Len(s))

\* if is_training and the gold span is not inside the window: continue
SkipChunk(span) ==
    /\ args.is_training
    /\ \/ example.start_position < span.start
       \/ example.end_position < span.start
       \/ example.start_position > SpanEnd(span)
       \/ example.end_position > SpanEnd(span)

ChunkFeature(idx) ==
    LET span == doc_spans[idx + 1]
        tokens == ChunkTokens(span)
        input_ids == [i \in 1..Len(tokens) |-> TokenId(tokens[i])]
        doc_offset == Len(query_tokens) + 2
    IN  [unique_id |-> unique_id,
         doc_span_index |-> idx,
         tokens |-> tokens,
         token_to_orig_map |->
             [p \in DocRegion(span) |-> tok_to_orig_index[SplitTokenIndex(span, p) + 1]],
         token_is_max_context |->
             [p \in DocRegion(span) |->
                 CheckIsMaxContext(doc_spans, idx, SplitTokenIndex(span, p))],
         input_ids |-> ZeroPad(input_ids),
         input_mask |-> ZeroPad(Repeat(1, Len(input_ids))),
         segment_ids |->
             ChunkSegmentIds(span) \o Repeat(0, args.max_seq_length - Len(input_ids)),
         start_position |->
             IF args.is_training THEN tok_start_position - span.start + doc_offset
             ELSE NoPosition,
         end_position |->
             IF args.is_training THEN tok_end_position - span.start + doc_offset
             ELSE NoPosition]

\* the three assert statements after the padding loop
PaddingAsserts(f) ==
    /\ Len(f.input_ids) = args.max_seq_length
    /\ Len(f.input_mask) = args.max_seq_length
    /\ Len(f.segment_ids) = args.max_seq_length

NoText == <<"None", -1, -1>>
NoResult == [start_logits |-> <<>>, end_logits |-> <<>>,
             yes_no_flag_logits |-> <<0, 0>>, yes_no_ans_logits |-> <<0, 0>>]
NoDecArgs == [n_best_size |-> 0, max_answer_length |-> 0, validate_flag |-> FALSE]

ChunkInit(exs, ars) ==
    /\ pc = "query"
    /\ example \in exs
    /\ args \in ars
    /\ args.is_training = (example.start_position # NoPosition)
    /\ query_tokens = <<>>
    /\ tok_to_orig_index = <<>>
    /\ orig_to_tok_index = <<>>
    /\ tok_start_position = NoPosition
    /\ tok_end_position = NoPosition
    /\ doc_spans = <<>>
    /\ start_offset = 0
    /\ doc_span_index = 0
    /\ features = <<>>
    /\ unique_id = FirstUniqueId
    /\ dec_args = NoDecArgs
    /\ feature_index = 0
    /\ result = NoResult
    /\ prelim_predictions = <<>>
    /\ pred_index = 0
    /\ nbest = <<>>
    /\ prediction = NoText

\* lines 77-86
BuildQuery ==
    /\ pc = "query"
    /\ query_tokens' = QueryTokens(example.question_tokens, args.append_history,
                                   args.max_query_length)
    /\ pc' = "doc"
    /\ UNCHANGED <<example, args, tok_to_orig_index, orig_to_tok_index,
                   tok_start_position, tok_end_position, doc_spans, start_offset,
                   doc_span_index, features, unique_id, dec_vars>>

\* lines 88-108
TokenizeDoc ==
    /\ pc = "doc"
    /\ tok_to_orig_index' = TokToOrig(example.doc_sub)
    /\ orig_to_tok_index' = OrigToTok(example.doc_sub)
    /\ IF args.is_training
       THEN LET o2t == OrigToTok(example.doc_sub)
                s == o2t[example.start_position + 1]
                e == IF example.end_position < Len(example.doc_sub) - 1
                     THEN o2t[example.end_position + 2] - 1
                     ELSE Len(TokToOrig(example.doc_sub)) - 1
            IN  \E p \in ImproveAnswerSpan(s, e) :
                    /\ tok_start_position' = p[1]
                    /\ tok_end_position' = p[2]
       ELSE UNCHANGED <<tok_start_position, tok_end_position>>
    /\ pc' = "spans"
    /\ UNCHANGED <<example, args, query_tokens, doc_spans, start_offset,
                   doc_span_index, features, unique_id, dec_vars>>

\* lines 116-123, one iteration of the while loop (or its exit)
SpanLoop ==
    /\ pc = "spans"
    /\ Len(doc_spans) < MaxSpans
    /\ IF start_offset < DocLen
       THEN LET length == SpanLength(start_offset)
            IN  /\ doc_spans' = Append(doc_spans, [start |-> start_offset, length |-> length])
                /\ IF start_offset + length = DocLen
                   THEN pc' = "chunks" /\ UNCHANGED start_offset
                   ELSE /\ start_offset' = NextStartOffset(start_offset, length)
                        /\ pc' = "spans"
       ELSE pc' = "chunks" /\ UNCHANGED <<doc_spans, start_offset>>
    /\ UNCHANGED <<example, args, query_tokens, tok_to_orig_index, orig_to_tok_index,
                   tok_start_position, tok_end_position, doc_span_index, features,
                   unique_id, dec_vars>>

\* lines 125-205, one iteration of the loop over doc_spans (or its exit)
BuildChunk ==
    /\ pc = "chunks"
    /\ IF doc_span_index < Len(doc_spans)
       THEN LET f == ChunkFeature(doc_span_index)
            IN  IF ~PaddingAsserts(f)
                THEN pc' = "assert_failed" /\ UNCHANGED <<doc_span_index, features, unique_id>>
                ELSE /\ pc' = "chunks"
                     /\ doc_span_index' = doc_span_index + 1
                     /\ IF SkipChunk(doc_spans[doc_span_index + 1])
                        THEN UNCHANGED <<features, unique_id>>
                        ELSE /\ features' = Append(features, f)
                             /\ unique_id' = unique_id + 1
       ELSE pc' = "done" /\ UNCHANGED <<doc_span_index, features, unique_id>>
    /\ UNCHANGED <<example, args, query_tokens, tok_to_orig_index, orig_to_tok_index,
                   tok_start_position, tok_end_position, doc_spans, start_offset,
                   dec_vars>>

ChunkNext == BuildQuery \/ TokenizeDoc \/ SpanLoop \/ BuildChunk

\* The chunker on every document, budget and stride, with a one-turn question
\* of 0..MaxTurnLen tokens kept whole.
Init ==
    ChunkInit(Examples([1..1 -> 0..MaxTurnLen], DocSubs),
              Args(NumSpecial..MaxSeqLen, 0..MaxStride, {MaxTurnLen}, {FALSE}))

Next == ChunkNext

Spec == Init /\ [][Next]_vars

\* The chunker on every conversation history, max_query_length and history
\* order, with documents of at most one token.
QueryInit ==
    ChunkInit(Examples(TurnLens, {d \in DocSubs : Len(d) <= 1}),
              Args({MaxSeqLen}, {1}, 0..MaxQueryLen, BOOLEAN))

SpecQuery == QueryInit /\ [][Next]_vars

\* ------------------------------------------------------------ the decoder
\* make_predictions on the one example, with the chunks the chunker emitted
\* for it. all_results holds a RawResult for every chunk's unique_id; the
\* model draws it when the loop reaches the chunk.
YesText == <<"yes", -1, -1>>
NoAnswerText == <<"no", -1, -1>>
EmptyText == <<"empty", -1, -1>>

\* score arrays over n positions, all zero or non-zero at one position
LogitArrays(n) ==
    {[i \in 1..n |-> IF i = h THEN v ELSE 0] : h \in 1..n, v \in 0..MaxLogit}

LogitPairs == [1..2 -> 0..MaxLogit]

\* A result whose applicable pair votes yes/no: its start and end scores
\* are never read (line 256) and are drawn as zeros.
YesNoResults ==
    [start_logits : {[i \in 1..args.max_seq_length |-> 0]},
     end_logits : {[i \in 1..args.max_seq_length |-> 0]},
     yes_no_flag_logits : {p \in LogitPairs : p[2] > p[1]},
     yes_no_ans_logits : LogitPairs]

\* A result whose applicable pair votes span: its answer pair is never read
\* and is drawn as zeros.
SpanResults ==
    [start_logits : LogitArrays(args.max_seq_length),
     end_logits : LogitArrays(args.max_seq_length),
     yes_no_flag_logits : {p \in LogitPairs : p[2] <= p[1]},
     yes_no_ans_logits : {<<0, 0>>}]

RawResults == YesNoResults \cup SpanResults

\* max_answer_length up to the document budget: a longer limit filters
\* nothing more
DecArgs ==
    [n_best_size : 1..MaxNBest, max_answer_length : 1..MaxTokensForDoc,
     validate_flag : BOOLEAN]

\* np.argmax of a score pair: the first index among equal scores
ArgMax(pair) == IF pair[2] > pair[1] THEN 1 ELSE 0

\* _get_best_indexes(logits, n_best_size): the indexes by descending score,
\* equal scores in index order, cut to n_best_size
RECURSIVE BestIndexesFrom(_, _, _)
BestIndexesFrom(logits, taken, n) ==
    LET left == (1..Len(logits)) \ taken
    IN  IF n = 0 \/ left = {} THEN <<>>
        ELSE LET best == CHOOSE i \in left :
                            \A j \in left : \/ logits[i] > logits[j]
                                            \/ logits[i] = logits[j] /\ i <= j
             IN  <<best - 1>> \o BestIndexesFrom(logits, taken \cup {best}, n - 1)

GetBestIndexes(logits, n_best_size) == BestIndexesFrom(logits, {}, n_best_size)

\* the yes/no vote scored with the not-applicable score
YesNoLogit_FlagZero(r) ==
    r.yes_no_flag_logits[1] + r.yes_no_ans_logits[ArgMax(r.yes_no_ans_logits) + 1]

\* logit = yes_no_flag_logits[1] + yes_no_ans_logits[1 or 0]
YesNoLogit(r) ==
    r.yes_no_flag_logits[2] + r.yes_no_ans_logits[ArgMax(r.yes_no_ans_logits) + 1]

\* lines 243-255
YesNoPrediction(fi, r) ==
    [feature_index |-> fi, start_index |-> -1, end_index |-> -1,
     text |-> IF ArgMax(r.yes_no_ans_logits) = 1 THEN YesText ELSE NoAnswerText,
     logit |-> YesNoLogit(r)]

\* lines 265-279: the pair survives every "continue"
ValidSpan(f, start_index, end_index) ==
    /\ start_index < Len(f.tokens)
    /\ end_index < Len(f.tokens)
    /\ start_index \in DOMAIN f.token_to_orig_map
    /\ end_index \in DOMAIN f.token_to_orig_map
    /\ start_index \in DOMAIN f.token_is_max_context
    /\ f.token_is_max_context[start_index]
    /\ end_index >= start_index
    /\ end_index - start_index + 1 <= dec_args.max_answer_length

\* lines 258-287
SpanPredictions(fi, f, r) ==
    LET start_indexes == GetBestIndexes(r.start_logits, dec_args.n_best_size)
        end_indexes == GetBestIndexes(r.end_logits, dec_args.n_best_size)
        ne == Len(end_indexes)
        pairs == [k \in 1..(Len(start_indexes) * ne) |->
                     <<start_indexes[((k - 1) \div ne) + 1],
                       end_indexes[((k - 1) % ne) + 1]>>]
        Keep(pr) == ValidSpan(f, pr[1], pr[2])
        kept == SelectSeq(pairs, Keep)
    IN  [k \in 1..Len(kept) |->
            [feature_index |-> fi, start_index |-> kept[k][1],
             end_index |-> kept[k][2], text |-> NoText,
             logit |-> r.yes_no_flag_logits[1] + r.start_logits[kept[k][1] + 1]
                         + r.end_logits[kept[k][2] + 1]]]

\* lines 235-287 for one feature
FeaturePredictions(fi, f, r) ==
    IF ArgMax(r.yes_no_flag_logits) = 1
    THEN <<YesNoPrediction(fi, r)>>
    ELSE SpanPredictions(fi, f, r)

\* the pool left in the order the chunks gave it
SortByLogit_Unsorted(preds) == preds

\* sorted(prelim_predictions, key=lambda x: x.logit, reverse=True): stable
RECURSIVE SortByLogit(_)
SortByLogit(preds) ==
    IF preds = <<>> THEN <<>>
    ELSE LET rest == SortByLogit(SubSeq(preds, 1, Len(preds) - 1))
             x == preds[Len(preds)]
             n == Cardinality({i \in 1..Len(rest) : rest[i].logit >= x.logit})
         IN  SubSeq(rest, 1, n) \o <<x>> \o SubSeq(rest, n + 1, Len(rest))

\* lines 310-325. A span text is <<"span", a, b>>: the document subword
\* tokens a..b. get_final_text gives the part of orig_text aligned with
\* tok_text, or the whole orig_text when it cannot align them.
FinalText(f, pred, aligned) ==
    IF pred.start_index = -1 \/ pred.end_index = -1 THEN pred.text
    ELSE LET orig_doc_start == f.token_to_orig_map[pred.start_index]
             orig_doc_end == f.token_to_orig_map[pred.end_index]
             o2t == OrigToTok(example.doc_sub)
         IN  IF aligned
             THEN <<"span", f.tokens[pred.start_index + 1][2],
                    f.tokens[pred.end_index + 1][2]>>
             ELSE <<"span", o2t[orig_doc_start + 1],
                    o2t[orig_doc_end + 1] + example.doc_sub[orig_doc_end + 1] - 1>>

\* final_text in seen_predictions
SeenPredictions(text) == \E i \in 1..Len(nbest) : nbest[i].text = text

\* an empty list is left empty
WithPlaceholder_None(nb) == nb

\* if not nbest: nbest.append(NbestPrediction(text="empty", logit=0.0))
WithPlaceholder(nb) ==
    IF nb = <<>> THEN <<[text |-> EmptyText, logit |-> 0]>> ELSE nb

\* lines 213-234: the call, after the chunker has finished with the example
StartDecode ==
    /\ pc = "done"
    /\ dec_args' \in DecArgs
    /\ feature_index' = 0
    /\ prelim_predictions' = <<>>
    /\ pc' = "prelim"
    /\ UNCHANGED <<example, args, chunk_vars, result, pred_index, nbest, prediction>>

\* lines 235-292: one iteration of the loop over features, or its exit
\* into the sort
PrelimStep ==
    /\ pc = "prelim"
    /\ IF feature_index < Len(features)
       THEN \E r \in RawResults :
               /\ result' = r
               /\ prelim_predictions' =
                     prelim_predictions
                         \o FeaturePredictions(feature_index, features[feature_index + 1], r)
               /\ feature_index' = feature_index + 1
               /\ pc' = "prelim"
       ELSE /\ prelim_predictions' = SortByLogit(prelim_predictions)
            /\ pc' = "nbest"
            /\ UNCHANGED <<result, feature_index>>
    /\ UNCHANGED <<example, args, chunk_vars, dec_args, pred_index, nbest, prediction>>

\* lines 302-338: one iteration of the loop over prelim_predictions, or
\* its exit
NbestStep ==
    /\ pc = "nbest"
    /\ IF pred_index < Len(prelim_predictions) /\ Len(nbest) < dec_args.n_best_size
       THEN LET pred == prelim_predictions[pred_index + 1]
                feature == features[pred.feature_index + 1]
            IN  \E aligned \in BOOLEAN :
                  LET final_text == FinalText(feature, pred, aligned)
                  IN  /\ pred_index' = pred_index + 1
                      /\ IF SeenPredictions(final_text)
                         THEN pc' = "nbest" /\ UNCHANGED nbest
                         ELSE /\ nbest' = Append(nbest, [text |-> final_text,
                                                         logit |-> pred.logit])
                              /\ pc' = IF dec_args.validate_flag THEN "output" ELSE "nbest"
       ELSE pc' = "output" /\ UNCHANGED <<pred_index, nbest>>
    /\ UNCHANGED <<example, args, chunk_vars, dec_args, feature_index, result,
                   prelim_predictions, prediction>>

\* lines 340-382: the placeholder, the assertion and the example's answer
Output ==
    /\ pc = "output"
    /\ nbest' = WithPlaceholder(nbest)
    /\ IF Len(nbest') >= 1
       THEN pc' = "decoded" /\ prediction' = nbest'[1].text
       ELSE pc' = "nbest_assert_failed" /\ UNCHANGED prediction
    /\ UNCHANGED <<example, args, chunk_vars, dec_args, feature_index, result,
                   prelim_predictions, pred_index>>

DecodeNext == StartDecode \/ PrelimStep \/ NbestStep \/ Output

\* The chunker without is_training and then the decoder, on the empty
\* document, a document of one padded chunk and a document of two chunks.
DecodeInit ==
    /\ ChunkInit(Examples([1..1 -> {0}], {<<>>, <<1>>, <<2, 1>>}),
                 Args({NumSpecial + 2}, {1}, {0}, {FALSE}))
    /\ ~args.is_training

NextDecode == ChunkNext \/ DecodeNext

SpecDecode == DecodeInit /\ [][NextDecode]_vars

\* ------------------------------------------------------- chunker claims
LoopDone == pc \in {"chunks", "done"}

\* ceil(a / b) for a >= 0, b > 0
CeilDiv(a, b) == (a + b - 1) \div b

\* the chunks that flag document subword position pos as maximum-context
FlaggingChunks(pos) ==
    {i \in 1..Len(features) :
        \E p \in DOMAIN features[i].token_is_max_context :
            /\ features[i].token_is_max_context[p]
            /\ doc_spans[features[i].doc_span_index + 1].start
                   + (p - (Len(query_tokens) + 2)) = pos}

\* the chunks that flag a subword of original document token orig
FlaggingChunksOfOrig(orig) ==
    {i \in 1..Len(features) :
        \E p \in DOMAIN features[i].token_is_max_context :
            /\ features[i].token_is_max_context[p]
            /\ features[i].token_to_orig_map[p] = orig}

Emitted(idx) == \E i \in 1..Len(features) : features[i].doc_span_index = idx

\* C1: the padding assertions never fail, and every emitted chunk has
\* input_ids, input_mask and segment_ids of length exactly max_seq_length.
C1_PaddedLengths ==
    /\ pc # "assert_failed"
    /\ \A i \in 1..Len(features) :
          /\ Len(features[i].input_ids) = args.max_seq_length
          /\ Len(features[i].input_mask) = args.max_seq_length
          /\ Len(features[i].segment_ids) = args.max_seq_length

\* C1 witness: a finished example with a chunk that fills max_seq_length
\* exactly and a chunk that needed zero-padding.
C1_Witness ==
    /\ pc = "done"
    /\ \E i, j \in 1..Len(features) :
          /\ Len(features[i].tokens) = args.max_seq_length
          /\ Len(features[j].tokens) < args.max_seq_length
          /\ features[j].input_mask[args.max_seq_length] = 0

\* C2 as stated: every original document-token position is flagged
\* maximum-context in exactly one emitted chunk.
C2_Original ==
    pc = "done" =>
        \A orig \in 0..(Len(example.doc_sub) - 1) :
            Cardinality(FlaggingChunksOfOrig(orig)) = 1

\* C2 amended: without is_training every document subword position is
\* flagged maximum-context in exactly one emitted chunk, and so every
\* original document token is flagged in at least one chunk.
C2_OneOwnerPerSubword ==
    (pc = "done" /\ ~args.is_training) =>
        /\ \A pos \in 0..(DocLen - 1) : Cardinality(FlaggingChunks(pos)) = 1
        /\ \A orig \in 0..(Len(example.doc_sub) - 1) : FlaggingChunksOfOrig(orig) # {}

\* C2 witness: inference over overlapping windows, where one original token
\* has its subwords owned by two different chunks.
C2_Witness ==
    /\ pc = "done"
    /\ ~args.is_training
    /\ Len(features) >= 2
    /\ \E orig \in 0..(Len(example.doc_sub) - 1) :
          Cardinality(FlaggingChunksOfOrig(orig)) = 2

\* C3 as stated: in training a window's chunk is emitted exactly when the
\* gold span in subword coordinates lies inside the window.
C3_Claim ==
    (pc = "done" /\ args.is_training) =>
        \A idx \in 0..(Len(doc_spans) - 1) :
            Emitted(idx) <=>
                /\ doc_spans[idx + 1].start <= tok_start_position
                /\ tok_end_position <= SpanEnd(doc_spans[idx + 1])

\* C4 as stated: ceil((L-B)/S)+1 windows when L > B, else exactly 1.
C4_Original ==
    LoopDone =>
        Len(doc_spans) = IF DocLen > MaxTokensForDoc
                         THEN CeilDiv(DocLen - MaxTokensForDoc, args.doc_stride) + 1
                         ELSE 1

\* C4 amended: a completed window loop has produced ceil((L-B)/min(S,B))+1
\* windows when L > B, exactly 1 when 1 <= L <= B, and none when L = 0.
C4_WindowCount ==
    LoopDone =>
        IF DocLen = 0 THEN Len(doc_spans) = 0
        ELSE IF DocLen > MaxTokensForDoc
        THEN /\ Min(args.doc_stride, MaxTokensForDoc) >= 1
             /\ Len(doc_spans) = CeilDiv(DocLen - MaxTokensForDoc,
                                         Min(args.doc_stride, MaxTokensForDoc)) + 1
        ELSE Len(doc_spans) = 1

\* C4 witness: a completed loop of three or more windows over a document
\* longer than the budget, with a stride larger than the budget.
C4_Witness ==
    /\ LoopDone
    /\ DocLen > MaxTokensForDoc
    /\ args.doc_stride > MaxTokensForDoc
    /\ Len(doc_spans) >= 3

\* C5: the windows of a completed loop start at 0, leave no gap between
\* consecutive windows, end at the last subword token, and so hold every
\* document subword position.
C5_Coverage ==
    (LoopDone /\ DocLen > 0) =>
        /\ doc_spans # <<>>
        /\ doc_spans[1].start = 0
        /\ \A i \in 2..Len(doc_spans) :
              doc_spans[i].start <= doc_spans[i - 1].start + doc_spans[i - 1].length
        /\ SpanEnd(doc_spans[Len(doc_spans)]) = DocLen - 1
        /\ \A pos \in 0..(DocLen - 1) :
              \E i \in 1..Len(doc_spans) : SpanHolds(doc_spans[i], pos)

\* C5 witness: a completed loop with three or more windows, a stride larger
\* than the window and a short last window.
C5_Witness ==
    /\ LoopDone
    /\ Len(doc_spans) >= 3
    /\ args.doc_stride > doc_spans[1].length
    /\ doc_spans[Len(doc_spans)].length < doc_spans[1].length

\* C8 as stated: the query is the first max_query_length tokens of the
\* newest-first concatenation with append_history, the last max_query_length
\* tokens of the oldest-first concatenation otherwise; it has at most
\* max_query_length tokens; no older turn's token is kept while a token of
\* the current turn is dropped.
C8_Claim ==
    pc # "query" =>
        LET turns == AllQueryTokens(example.question_tokens)
            n == args.max_query_length
            newest == Flatten(Reverse(turns))
            oldest == Flatten(turns)
            current == Len(turns)
            kept(tok) == \E i \in 1..Len(query_tokens) : query_tokens[i] = tok
        IN  /\ query_tokens =
                  IF args.append_history
                  THEN SubSeq(newest, 1, Min(n, Len(newest)))
                  ELSE SubSeq(oldest, Len(oldest) - Min(n, Len(oldest)) + 1, Len(oldest))
            /\ Len(query_tokens) <= n
            /\ (\E i \in 1..Len(query_tokens) : query_tokens[i][2] < current) =>
                  \A k \in 1..Len(turns[current]) : kept(turns[current][k])

\* C10 as stated: each iteration of the window loop that does not leave it
\* strictly increases start_offset, and the number of windows never exceeds
\* the document length.
C10_Claim ==
    [][(pc = "spans" /\ pc' = "spans") =>
          /\ start_offset' > start_offset
          /\ Len(doc_spans') <= DocLen]_vars

\* ------------------------------------------------------- decoder claims
\* the candidates chunk fi put in the pool, in pool order
PoolOf(fi) ==
    LET Mine(c) == c.feature_index = fi
    IN  SelectSeq(prelim_predictions, Mine)

\* the texts get_final_text can give for pooled candidate c
TextsOf(c) ==
    {FinalText(features[c.feature_index + 1], c, aligned) : aligned \in BOOLEAN}

\* C6: the decoder never fails its non-empty assertion; a decoded example
\* has at least one answer, which is exactly the ("empty", 0.0) placeholder
\* when the pool is empty and never the placeholder otherwise, and the
\* answer written out is the first entry's text.
C6_NeverEmpty ==
    /\ pc # "nbest_assert_failed"
    /\ pc = "decoded" =>
          /\ Len(nbest) >= 1
          /\ prediction = nbest[1].text
          /\ IF prelim_predictions = <<>>
             THEN nbest = <<[text |-> EmptyText, logit |-> 0]>>
             ELSE \A i \in 1..Len(nbest) : nbest[i].text # EmptyText

\* C6 witness: a decoded example with two chunks whose candidates were all
\* filtered out, answered with the placeholder.
C6_Witness ==
    /\ pc = "decoded"
    /\ Len(features) = 2
    /\ prelim_predictions = <<>>
    /\ prediction = EmptyText
    /\ \E i \in 1..Len(result.start_logits) : result.start_logits[i] > 0

C9_NBest ==
    pc = "decoded" =>
        /\ \A i, j \in 1..Len(nbest) : i # j => nbest[i].text # nbest[j].text
        /\ \A i \in 1..(Len(nbest) - 1) : nbest[i].logit >= nbest[i + 1].logit
        /\ Len(nbest) <= dec_args.n_best_size
        /\ dec_args.validate_flag => Len(nbest) = 1
        /\ prelim_predictions # <<>> =>
              \E i \in 1..Len(prelim_predictions) :
                  /\ \A j \in 1..Len(prelim_predictions) :
                        prelim_predictions[i].logit >= prelim_predictions[j].logit
                  /\ nbest[1].logit = prelim_predictions[i].logit
                  /\ nbest[1].text \in TextsOf(prelim_predictions[i])

\* C9 witness: the second chunk's candidate outscored the first chunk's and
\* leads a list of two distinct texts.
C9_Witness ==
    /\ pc = "decoded"
    /\ ~dec_args.validate_flag
    /\ Len(prelim_predictions) = 2
    /\ prelim_predictions[1].feature_index = 1
    /\ Len(nbest) = 2
    /\ nbest[1].logit > nbest[2].logit

====
